---- MODULE Spec2Model ----
(***************************************************************************)
(* Task lifecycle workflow engine of axum_postgres_rust:                   *)
(*   - TaskStatus and its raw transition relation                          *)
(*     (src/domain/value_objects/task_status.rs),                          *)
(*   - UserRole (src/domain/value_objects/user_role.rs),                   *)
(*   - the Task aggregate and its guarded mutations                        *)
(*     (src/domain/entities/task.rs),                                      *)
(*   - the TaskStatusService transition policy                             *)
(*     (src/domain/services/task_status_service.rs).                       *)
(*                                                                         *)
(* Spec        drives one Task aggregate through its public methods.       *)
(* SpecPolicy  applies the pure functions of TaskStatus / TaskStatusService *)
(*             to inputs drawn from their whole (finite) domains.          *)
(* SpecValidate  applies the constructors and validators of Task and       *)
(*             TaskDomainService to names and priorities around their      *)
(*             limits.                                                     *)
(* SpecAnalytics  grows a status history entry by entry, as                *)
(*             find_by_task_id returns it, and reconstructs its analytics. *)
(* SpecStore   calls StatusHistoryRepository::save on the history table.   *)
(* SpecUseCases  runs create_task, update_task and update_task_status      *)
(*             against the tasks table and the history table.              *)
(* SpecCompletion  runs get_completion_analytics over a growing set of     *)
(*             tasks and their histories.                                  *)
(***************************************************************************)
EXTENDS Integers, Sequences, FiniteSets, TLC

VARIABLES
    task,   \* the Task aggregate: its six fields
    now,    \* the wall clock read by Utc::now()
    last,   \* the last call on the aggregate: method, arguments, the task before, the Result
    path,   \* what the aggregate has passed: is_high_priority() on entering InProgress, PendingReview, and how often its status changed
    q,      \* the last call of a pure function: function, arguments, value returned
    v,      \* the last constructor or validator call, and the task it left, if any
    history,    \* the Vec<StatusHistory> handed to TaskAnalytics::from_history
    an,     \* what from_history and the use cases reading it returned for history
    rows,   \* the status_history table
    db,     \* the tasks table, the requests in flight and the log of what they did
    pop     \* the tasks and histories that get_completion_analytics reads, and its result

taskVars == <<task, now, last, path>>
policyVars == <<q>>
vars == <<task, now, last, path, q, v, history, an, rows, db, pop>>

\* the variables a specification leaves alone
offTask == <<q, v, history, an, rows, db, pop>>
offPolicy == <<v, history, an, rows, db, pop>>

(***************************************************************************)
(* Bounds of the model                                                     *)
(***************************************************************************)
\* a history read by get_completion_analytics has at most MaxLifetime rows
MaxLifetime == 4
\* get_completion_analytics reads the histories of at most MaxPopulation tasks
MaxPopulation == 2
\* the callers send at most MaxRequests requests to the use cases
MaxRequests == 4
\* the status_history table holds rows under at most MaxRows ids
MaxRows == 2
\* a status history holds at most MaxHistory entries
MaxHistory == 4
\* the clock advances from 0 up to MaxClock
MaxClock == 1
\* a name carries at most MaxPad whitespace characters on either side
MaxPad == 1
\* and at most MaxCore characters between its first and last non-whitespace one
MaxCore == 1

(***************************************************************************)
(* Option<T> and Result<T, String>                                         *)
(***************************************************************************)
\* Option<T> is the set of its at most one value
None == {}
Some(x) == {x}

\* Result<(), String>: Ok(()) or Err(message); a message built by format!()
\* keeps its arguments
Ok == <<"Ok">>
Err(msg) == <<"Err", msg>>
Err2(msg, a, b) == <<"Err", msg, a, b>>
is_ok(r) == r[1] = "Ok"
is_err(r) == r[1] = "Err"

(***************************************************************************)
(* Strings, as far as trim(), is_empty() and len() see them: the number of *)
(* leading whitespace characters, the length of the part from the first to *)
(* the last non-whitespace character (with a tag for its text), and the    *)
(* number of trailing whitespace characters.  A string of whitespace only  *)
(* has core 0 and all its whitespace counted as leading.                   *)
(***************************************************************************)
Texts == {"a", "b"}

Str(lead, core, text, trail) == [lead |-> lead, core |-> core, text |-> text, trail |-> trail]

trim(s) == Str(0, s.core, s.text, 0)

str_len(s) == s.lead + s.core + s.trail

str_is_empty(s) == str_len(s) = 0

\* the names a caller may pass
NameInputs ==
    { Str(l, c, t, r) : l \in 0..MaxPad, c \in 1..MaxCore, t \in Texts, r \in 0..MaxPad }
    \cup { Str(l, 0, "", 0) : l \in 0..MaxPad }

\* the priorities a caller may pass: absent, the limits 1 and 10, their
\* neighbours 0 and 11, and both sides of the high-priority threshold 3
PriorityInputs == {None} \cup { Some(p) : p \in {0, 1, 3, 4, 10, 11} }

(***************************************************************************)
(* TaskStatus                                                              *)
(***************************************************************************)
TaskStatus == {"Pending", "InProgress", "PendingReview", "Completed", "Cancelled"}

\* impl Default for TaskStatus
TaskStatus_default == "Pending"

\* a plausible slip: the wildcard arm accepts instead of rejecting
can_transition_to_wildcard_true(self, target) ==
    CASE self = "Pending" /\ target = "InProgress" -> TRUE
      [] self = "Pending" /\ target = "Cancelled" -> TRUE
      [] self = "InProgress" /\ target = "Completed" -> TRUE
      [] self = "InProgress" /\ target = "PendingReview" -> TRUE
      [] self = "InProgress" /\ target = "Cancelled" -> TRUE
      [] self = "PendingReview" /\ target = "Completed" -> TRUE
      [] self = "PendingReview" /\ target = "Cancelled" -> TRUE
      [] self = "Completed" -> FALSE
      [] self = "Cancelled" -> FALSE
      [] OTHER -> TRUE

\* TaskStatus::can_transition_to: the match arms in their order
can_transition_to(self, target) ==
    CASE self = "Pending" /\ target = "InProgress" -> TRUE
      [] self = "Pending" /\ target = "Cancelled" -> TRUE
      [] self = "InProgress" /\ target = "Completed" -> TRUE
      [] self = "InProgress" /\ target = "PendingReview" -> TRUE
      [] self = "InProgress" /\ target = "Cancelled" -> TRUE
      [] self = "PendingReview" /\ target = "Completed" -> TRUE
      [] self = "PendingReview" /\ target = "Cancelled" -> TRUE
      [] self = "Completed" -> FALSE
      [] self = "Cancelled" -> FALSE
      [] OTHER -> FALSE

(***************************************************************************)
(* UserRole                                                                *)
(***************************************************************************)
UserRole == {"User", "Manager", "Admin"}

\* UserRole::can_approve
can_approve(self) ==
    CASE self = "User" -> FALSE
      [] self \in {"Manager", "Admin"} -> TRUE

(***************************************************************************)
(* Task (src/domain/entities/task.rs).  A method taking &mut self is an    *)
(* operator from the task and the clock reading to the task it leaves and  *)
(* the Result it returns.                                                  *)
(***************************************************************************)
Ret(self, result) == [self |-> self, result |-> result]

\* Task::new: Result<Self, String>, the task present exactly on Ok
Task_new(id, name, priority, clock) ==
    IF str_is_empty(trim(name))
    THEN [value |-> None, result |-> Err("Task name cannot be empty")]
    ELSE IF \E p \in priority : p < 1 \/ p > 10
    THEN [value |-> None, result |-> Err("Priority must be between 1 and 10")]
    ELSE [value |-> Some([id |-> id,
                          name |-> trim(name),
                          priority |-> priority,
                          status |-> TaskStatus_default,
                          created_at |-> clock,
                          updated_at |-> clock]),
          result |-> Ok]

\* a plausible slip: the wrong timestamp is stamped
update_name_stamps_created_at(self, name, clock) ==
    IF str_is_empty(trim(name))
    THEN Ret(self, Err("Task name cannot be empty"))
    ELSE Ret([self EXCEPT !.name = trim(name), !.created_at = clock], Ok)

\* Task::update_name
update_name(self, name, clock) ==
    IF str_is_empty(trim(name))
    THEN Ret(self, Err("Task name cannot be empty"))
    ELSE Ret([self EXCEPT !.name = trim(name), !.updated_at = clock], Ok)

\* a plausible slip: the field is assigned before the range check
update_priority_assign_first(self, priority, clock) ==
    IF \E p \in priority : p < 1 \/ p > 10
    THEN Ret([self EXCEPT !.priority = priority], Err("Priority must be between 1 and 10"))
    ELSE Ret([self EXCEPT !.priority = priority, !.updated_at = clock], Ok)

\* Task::update_priority
update_priority(self, priority, clock) ==
    IF \E p \in priority : p < 1 \/ p > 10
    THEN Ret(self, Err("Priority must be between 1 and 10"))
    ELSE Ret([self EXCEPT !.priority = priority, !.updated_at = clock], Ok)

\* Task::is_high_priority: self.priority.map_or(false, |p| p <= 3)
is_high_priority(self) == \E p \in self.priority : p <= 3

\* Task::start_progress
start_progress(self, clock) ==
    IF ~can_transition_to(self.status, "InProgress")
    THEN Ret(self, Err("Cannot start progress on task in current status"))
    ELSE Ret([self EXCEPT !.status = "InProgress", !.updated_at = clock], Ok)

\* a plausible slip: the priority is not looked at
complete_ignores_priority(self, clock) ==
    IF ~can_transition_to(self.status, "Completed")
    THEN Ret(self, Err("Cannot complete task in current status"))
    ELSE Ret([self EXCEPT !.status = "Completed", !.updated_at = clock], Ok)

\* a plausible slip: the ordinary branch does not consult the relation
complete_unchecked(self, clock) ==
    IF is_high_priority(self)
    THEN IF ~can_transition_to(self.status, "PendingReview")
         THEN Ret(self, Err("Cannot complete high-priority task without review"))
         ELSE Ret([self EXCEPT !.status = "PendingReview", !.updated_at = clock], Ok)
    ELSE Ret([self EXCEPT !.status = "Completed", !.updated_at = clock], Ok)

\* Task::complete
complete(self, clock) ==
    IF is_high_priority(self)
    THEN IF ~can_transition_to(self.status, "PendingReview")
         THEN Ret(self, Err("Cannot complete high-priority task without review"))
         ELSE Ret([self EXCEPT !.status = "PendingReview", !.updated_at = clock], Ok)
    ELSE IF ~can_transition_to(self.status, "Completed")
         THEN Ret(self, Err("Cannot complete task in current status"))
         ELSE Ret([self EXCEPT !.status = "Completed", !.updated_at = clock], Ok)

\* a plausible slip: the guard asks the transition relation
approve_completion_by_relation(self, clock) ==
    IF ~can_transition_to(self.status, "Completed")
    THEN Ret(self, Err("Can only approve tasks in PendingReview status"))
    ELSE Ret([self EXCEPT !.status = "Completed", !.updated_at = clock], Ok)

\* Task::approve_completion
approve_completion(self, clock) ==
    IF self.status # "PendingReview"
    THEN Ret(self, Err("Can only approve tasks in PendingReview status"))
    ELSE Ret([self EXCEPT !.status = "Completed", !.updated_at = clock], Ok)

\* a plausible slip: the guard is missing
cancel_unguarded(self, clock) ==
    Ret([self EXCEPT !.status = "Cancelled", !.updated_at = clock], Ok)

\* a plausible slip: the guard asks the transition relation
cancel_by_relation(self, clock) ==
    IF ~can_transition_to(self.status, "Cancelled")
    THEN Ret(self, Err("Cannot cancel completed tasks"))
    ELSE Ret([self EXCEPT !.status = "Cancelled", !.updated_at = clock], Ok)

\* Task::cancel
cancel(self, clock) ==
    IF self.status = "Completed"
    THEN Ret(self, Err("Cannot cancel completed tasks"))
    ELSE Ret([self EXCEPT !.status = "Cancelled", !.updated_at = clock], Ok)

\* a plausible slip: the PendingReview arm forwards to complete() without
\* asking for a high-priority task
transition_to_review_unchecked(self, new_status, clock) ==
    IF ~can_transition_to(self.status, new_status)
    THEN Ret(self, Err2("Invalid transition from {:?} to {:?}", self.status, new_status))
    ELSE CASE new_status = "InProgress" -> start_progress(self, clock)
           [] new_status = "Completed" ->
                IF self.status = "PendingReview"
                THEN approve_completion(self, clock)
                ELSE complete(self, clock)
           [] new_status = "PendingReview" -> complete(self, clock)
           [] new_status = "Cancelled" -> cancel(self, clock)
           [] OTHER -> Ret(self, Err("Invalid status transition"))

\* Task::transition_to
transition_to(self, new_status, clock) ==
    IF ~can_transition_to(self.status, new_status)
    THEN Ret(self, Err2("Invalid transition from {:?} to {:?}", self.status, new_status))
    ELSE CASE new_status = "InProgress" -> start_progress(self, clock)
           [] new_status = "Completed" ->
                IF self.status = "PendingReview"
                THEN approve_completion(self, clock)
                ELSE complete(self, clock)
           [] new_status = "PendingReview" ->
                IF is_high_priority(self) /\ self.status = "InProgress"
                THEN complete(self, clock)
                ELSE Ret(self, Err("Only high-priority tasks can transition to PendingReview"))
           [] new_status = "Cancelled" -> cancel(self, clock)
           [] OTHER -> Ret(self, Err("Invalid status transition"))

(***************************************************************************)
(* TaskStatusService (src/domain/services/task_status_service.rs)          *)
(***************************************************************************)
\* a plausible slip: the review rule is keyed on the role instead of the priority
can_transition_review_by_role(from, to, high_priority, user_role) ==
    IF ~can_transition_to(from, to)
    THEN Err2("Invalid transition from {:?} to {:?}", from, to)
    ELSE CASE from = "InProgress" /\ to = "Completed" /\ ~can_approve(user_role) ->
                Err("High-priority tasks must go through review before completion")
           [] from = "PendingReview" /\ to = "Completed" /\ ~can_approve(user_role) ->
                Err("Only managers can approve task completion")
           [] OTHER -> Ok

\* a plausible slip: the approval rule is applied to high-priority tasks only
can_transition_approval_high_only(from, to, high_priority, user_role) ==
    IF ~can_transition_to(from, to)
    THEN Err2("Invalid transition from {:?} to {:?}", from, to)
    ELSE CASE from = "InProgress" /\ to = "Completed" /\ high_priority ->
                Err("High-priority tasks must go through review before completion")
           [] from = "PendingReview" /\ to = "Completed" /\ high_priority
                /\ ~can_approve(user_role) ->
                Err("Only managers can approve task completion")
           [] OTHER -> Ok

\* TaskStatusService::can_transition: the base relation first, then the
\* guarded match arms in their order
can_transition(from, to, high_priority, user_role) ==
    IF ~can_transition_to(from, to)
    THEN Err2("Invalid transition from {:?} to {:?}", from, to)
    ELSE CASE from = "InProgress" /\ to = "Completed" /\ high_priority ->
                Err("High-priority tasks must go through review before completion")
           [] from = "PendingReview" /\ to = "Completed" /\ ~can_approve(user_role) ->
                Err("Only managers can approve task completion")
           [] OTHER -> Ok

\* a plausible slip: a comment is asked for on the edges of the relation only
requires_comment_on_edges(from, to) ==
    CASE from = "PendingReview" /\ to = "Completed" -> TRUE
      [] to = "Cancelled" -> can_transition_to(from, to)
      [] OTHER -> FALSE

\* TaskStatusService::requires_comment
requires_comment(from, to) ==
    CASE from = "PendingReview" /\ to = "Completed" -> TRUE
      [] to = "Cancelled" -> TRUE
      [] OTHER -> FALSE

\* the array all_statuses of get_valid_transitions
all_statuses == <<"Pending", "InProgress", "PendingReview", "Completed", "Cancelled">>

\* the for loop of get_valid_transitions from element i on, valid_transitions
\* being the vector pushed so far
RECURSIVE valid_transitions_loop(_, _, _, _, _)
valid_transitions_loop(i, valid_transitions, current, high_priority, user_role) ==
    IF i > Len(all_statuses)
    THEN valid_transitions
    ELSE valid_transitions_loop(
            i + 1,
            IF is_ok(can_transition(current, all_statuses[i], high_priority, user_role))
            THEN Append(valid_transitions, all_statuses[i])
            ELSE valid_transitions,
            current, high_priority, user_role)

\* a plausible slip: the candidates are filtered by the base relation alone
get_valid_transitions_base_only(current, high_priority, user_role) ==
    SelectSeq(all_statuses, LAMBDA s : can_transition_to(current, s))

\* TaskStatusService::get_valid_transitions
get_valid_transitions(current, high_priority, user_role) ==
    valid_transitions_loop(1, <<>>, current, high_priority, user_role)

(***************************************************************************)
(* The Task aggregate as a state machine: one action per public method.    *)
(***************************************************************************)
NoStr == Str(0, 0, "", 0)

\* the record of a call: the method, its argument (the others at their
\* defaults), the task as it was before the call, and the Result
Call(op, target, name, priority, before, result) ==
    [op |-> op, target |-> target, name |-> name, priority |-> priority,
     before |-> before, result |-> result]

NoValidation ==
    [fn |-> "none", name |-> NoStr, priority |-> None, status |-> "Pending",
     result |-> Ok, value |-> None]

NoAnalytics == [fn |-> "none"]

\* the status_history table before any call of its repository
NoStore == [table |-> {}, fn |-> "none", result |-> <<"none">>]

\* the callers whose requests may be in flight at the same time
Callers == {1, 2}

\* a caller with no request in flight
NoCall == [pc |-> "idle", status |-> "Pending", name |-> {}, priority |-> {}, task |-> {}]

\* the database and the callers before any request
NoDb ==
    [tasks |-> {}, status_history |-> <<>>, changes |-> <<>>,
     calls |-> [c \in Callers |-> NoCall], op |-> "none", repo |-> {},
     last |-> <<"none">>, response |-> {}, requests |-> 0]

\* no task, and no call of get_completion_analytics yet
NoPopulation == [tasks |-> <<>>, fn |-> "none", result |-> <<"none">>]

NoQuery ==
    [fn |-> "none", from |-> "Pending", to |-> "Pending", high_priority |-> FALSE,
     role |-> "User", value |-> FALSE, result |-> Ok, list |-> <<>>]

\* the path of a task that Task::new has just built
NoPath == [high_on_start |-> None, reviewed |-> FALSE, changes |-> 0]

\* the path after a call that left the aggregate as t
Followed(t) ==
    [high_on_start |-> IF t.status = "InProgress" /\ task.status # "InProgress"
                       THEN Some(is_high_priority(t))
                       ELSE path.high_on_start,
     reviewed |-> path.reviewed \/ t.status = "PendingReview",
     changes |-> IF t.status # task.status THEN path.changes + 1 ELSE path.changes]

\* a specification that does not call a component starts it here and leaves
\* it there
TaskIdle ==
    /\ now = 0
    /\ \E t \in Task_new(1, Str(0, 1, "a", 0), None, 0).value :
          /\ task = t
          /\ last = Call("new", "-", Str(0, 1, "a", 0), None, t, Ok)
          /\ path = NoPath

PolicyIdle == q = NoQuery

ValidateIdle == v = NoValidation

AnalyticsIdle == history = <<>> /\ an = NoAnalytics

StoreIdle == rows = NoStore

UseCasesIdle == db = NoDb

CompletionIdle == pop = NoPopulation

\* the state after a successful Task::new(TaskId::new(1), name, priority)
Init ==
    /\ now = 0
    /\ PolicyIdle /\ ValidateIdle /\ AnalyticsIdle /\ StoreIdle /\ UseCasesIdle /\ CompletionIdle
    /\ \E name \in NameInputs, priority \in PriorityInputs :
          LET r == Task_new(1, name, priority, 0) IN
          \E t \in r.value :
             /\ task = t
             /\ last = Call("new", "-", name, priority, t, r.result)
             /\ path = NoPath

\* time passes between calls
Tick ==
    /\ now < MaxClock
    /\ now' = now + 1
    /\ UNCHANGED <<task, last, path, offTask>>

StartProgress ==
    LET r == start_progress(task, now) IN
    /\ task' = r.self
    /\ path' = Followed(r.self)
    /\ last' = Call("start_progress", "-", NoStr, None, task, r.result)
    /\ UNCHANGED <<now, offTask>>

Complete ==
    LET r == complete(task, now) IN
    /\ task' = r.self
    /\ path' = Followed(r.self)
    /\ last' = Call("complete", "-", NoStr, None, task, r.result)
    /\ UNCHANGED <<now, offTask>>

ApproveCompletion ==
    LET r == approve_completion(task, now) IN
    /\ task' = r.self
    /\ path' = Followed(r.self)
    /\ last' = Call("approve_completion", "-", NoStr, None, task, r.result)
    /\ UNCHANGED <<now, offTask>>

Cancel ==
    LET r == cancel(task, now) IN
    /\ task' = r.self
    /\ path' = Followed(r.self)
    /\ last' = Call("cancel", "-", NoStr, None, task, r.result)
    /\ UNCHANGED <<now, offTask>>

TransitionTo ==
    \E new_status \in TaskStatus :
       LET r == transition_to(task, new_status, now) IN
       /\ task' = r.self
       /\ path' = Followed(r.self)
       /\ last' = Call("transition_to", new_status, NoStr, None, task, r.result)
       /\ UNCHANGED <<now, offTask>>

UpdateName ==
    \E name \in NameInputs :
       LET r == update_name(task, name, now) IN
       /\ task' = r.self
       /\ path' = Followed(r.self)
       /\ last' = Call("update_name", "-", name, None, task, r.result)
       /\ UNCHANGED <<now, offTask>>

UpdatePriority ==
    \E priority \in PriorityInputs :
       LET r == update_priority(task, priority, now) IN
       /\ task' = r.self
       /\ path' = Followed(r.self)
       /\ last' = Call("update_priority", "-", NoStr, priority, task, r.result)
       /\ UNCHANGED <<now, offTask>>

Next ==
    \/ Tick
    \/ StartProgress
    \/ Complete
    \/ ApproveCompletion
    \/ Cancel
    \/ TransitionTo
    \/ UpdateName
    \/ UpdatePriority

Spec == Init /\ [][Next]_vars

(***************************************************************************)
(* The pure functions of TaskStatus and TaskStatusService, applied to      *)
(* every input of their domains.                                           *)
(***************************************************************************)
InitPolicy ==
    /\ TaskIdle /\ PolicyIdle /\ ValidateIdle /\ AnalyticsIdle /\ StoreIdle /\ UseCasesIdle /\ CompletionIdle

CallCanTransitionTo ==
    \E from \in TaskStatus, to \in TaskStatus :
       /\ q' = [NoQuery EXCEPT !.fn = "can_transition_to", !.from = from, !.to = to,
                               !.value = can_transition_to(from, to)]
       /\ UNCHANGED <<taskVars, offPolicy>>

CallCanTransition ==
    \E from \in TaskStatus, to \in TaskStatus, high_priority \in BOOLEAN, role \in UserRole :
       /\ q' = [NoQuery EXCEPT !.fn = "can_transition", !.from = from, !.to = to,
                               !.high_priority = high_priority, !.role = role,
                               !.result = can_transition(from, to, high_priority, role)]
       /\ UNCHANGED <<taskVars, offPolicy>>

CallGetValidTransitions ==
    \E current \in TaskStatus, high_priority \in BOOLEAN, role \in UserRole :
       /\ q' = [NoQuery EXCEPT !.fn = "get_valid_transitions", !.from = current,
                               !.high_priority = high_priority, !.role = role,
                               !.list = get_valid_transitions(current, high_priority, role)]
       /\ UNCHANGED <<taskVars, offPolicy>>

CallRequiresComment ==
    \E from \in TaskStatus, to \in TaskStatus :
       /\ q' = [NoQuery EXCEPT !.fn = "requires_comment", !.from = from, !.to = to,
                               !.value = requires_comment(from, to)]
       /\ UNCHANGED <<taskVars, offPolicy>>

NextPolicy ==
    \/ CallCanTransitionTo
    \/ CallCanTransition
    \/ CallGetValidTransitions
    \/ CallRequiresComment

SpecPolicy == InitPolicy /\ [][NextPolicy]_vars

(***************************************************************************)
(* Properties                                                              *)
(***************************************************************************)
\* the table of section 4.1: the seven edges of the raw transition relation
SevenEdges ==
    { <<"Pending", "InProgress">>, <<"Pending", "Cancelled">>,
      <<"InProgress", "Completed">>, <<"InProgress", "PendingReview">>,
      <<"InProgress", "Cancelled">>,
      <<"PendingReview", "Completed">>, <<"PendingReview", "Cancelled">> }

\* C1: for every ordered pair (from, to) of statuses, can_transition_to
\* returns true exactly for the seven edges of the table and false for the
\* other eighteen pairs (every self-pair, every pair leaving Completed or
\* Cancelled).
C1_TransitionTable ==
    q.fn = "can_transition_to" => (q.value <=> <<q.from, q.to>> \in SevenEdges)

C1_Witness ==
    /\ q.fn = "can_transition_to"
    /\ q.from = "PendingReview"
    /\ q.to = "Completed"
    /\ q.value

\* the statuses a walk of can_transition_to reaches from the statuses in S
RECURSIVE WalkClosure(_)
WalkClosure(S) ==
    LET T == S \cup { t \in TaskStatus : \E s \in S : can_transition_to(s, t) } IN
    IF T = S THEN S ELSE WalkClosure(T)

\* C2: from Task::new on, whatever methods are called and whether they
\* succeed or fail, every change of the task's status goes along an edge of
\* can_transition_to, and the status is one a walk from Pending reaches.
C2_StatusFollowsEdges ==
    /\ [](task.status \in WalkClosure({"Pending"}))
    /\ [][task'.status # task.status => can_transition_to(task.status, task'.status)]_vars

C2_Witness ==
    /\ last.before.status = "PendingReview"
    /\ task.status = "Completed"
    /\ last.op = "transition_to"

\* C3: Completed and Cancelled are terminal for the aggregate: once the
\* status is one of them, no method call changes it.
C3_TerminalStatusesStay ==
    [][task.status \in {"Completed", "Cancelled"} => task'.status = task.status]_vars

C3_Witness ==
    /\ last.before.status = "Completed"
    /\ last.op = "cancel"
    /\ task.status = "Completed"

\* C4: for a high-priority task and every role, can_transition rejects
\* InProgress -> Completed and accepts InProgress -> PendingReview.
C4_HighPriorityMustBeReviewed ==
    (q.fn = "can_transition" /\ q.from = "InProgress" /\ q.high_priority) =>
        /\ q.to = "Completed" => is_err(q.result)
        /\ q.to = "PendingReview" => is_ok(q.result)

C4_Witness ==
    /\ q.fn = "can_transition"
    /\ q.from = "InProgress"
    /\ q.to = "Completed"
    /\ q.high_priority
    /\ q.role = "Admin"
    /\ is_err(q.result)

\* C5: whatever the priority flag, can_transition rejects PendingReview ->
\* Completed for role User and accepts it for Manager and Admin.
C5_OnlyApproversComplete ==
    (q.fn = "can_transition" /\ q.from = "PendingReview" /\ q.to = "Completed") =>
        /\ q.role = "User" => is_err(q.result)
        /\ q.role \in {"Manager", "Admin"} => is_ok(q.result)

C5_Witness ==
    /\ q.fn = "can_transition"
    /\ q.from = "PendingReview"
    /\ q.to = "Completed"
    /\ ~q.high_priority
    /\ q.role = "User"
    /\ is_err(q.result)

\* the canonical order Pending, InProgress, PendingReview, Completed, Cancelled
CanonicalRank(s) ==
    CASE s = "Pending" -> 1
      [] s = "InProgress" -> 2
      [] s = "PendingReview" -> 3
      [] s = "Completed" -> 4
      [] s = "Cancelled" -> 5

\* C6: get_valid_transitions returns exactly the statuses for which
\* can_transition succeeds with the same inputs, each at most once and in
\* the canonical order.
C6_ValidTransitionsExact ==
    q.fn = "get_valid_transitions" =>
        /\ \A s \in TaskStatus :
              (\E i \in DOMAIN q.list : q.list[i] = s)
                 <=> is_ok(can_transition(q.from, s, q.high_priority, q.role))
        /\ \A i, j \in DOMAIN q.list :
              i < j => CanonicalRank(q.list[i]) < CanonicalRank(q.list[j])

C6_Witness ==
    /\ q.fn = "get_valid_transitions"
    /\ q.from = "InProgress"
    /\ q.high_priority
    /\ q.role = "User"
    /\ q.list = <<"PendingReview", "Cancelled">>

\* C7: complete() on a high-priority task (priority present and <= 3)
\* succeeds exactly when the relation allows status -> PendingReview and
\* then leaves PendingReview; on any other task it succeeds exactly when the
\* relation allows status -> Completed and then leaves Completed.
C7_CompleteRedirectsToReview ==
    last.op = "complete" =>
        IF \E p \in last.before.priority : p <= 3
        THEN /\ is_ok(last.result) <=> can_transition_to(last.before.status, "PendingReview")
             /\ is_ok(last.result) => task.status = "PendingReview"
        ELSE /\ is_ok(last.result) <=> can_transition_to(last.before.status, "Completed")
             /\ is_ok(last.result) => task.status = "Completed"

C7_Witness ==
    /\ last.op = "complete"
    /\ last.before.priority = Some(3)
    /\ last.before.status = "InProgress"
    /\ is_ok(last.result)
    /\ task.status = "PendingReview"

\* C8: cancel() succeeds from every status other than Completed and leaves
\* Cancelled; from Completed it returns an error and the status stays
\* Completed.
C8_CancelUnlessCompleted ==
    last.op = "cancel" =>
        IF last.before.status # "Completed"
        THEN is_ok(last.result) /\ task.status = "Cancelled"
        ELSE is_err(last.result) /\ task.status = "Completed"

C8_Witness ==
    /\ last.op = "cancel"
    /\ last.before.status = "Cancelled"
    /\ is_ok(last.result)
    /\ task.status = "Cancelled"

\* C9: transition_to(PendingReview) succeeds exactly when the task is
\* high-priority and InProgress; otherwise it returns an error and the
\* status is unchanged.
C9_ReviewOnlyForHighPriority ==
    (last.op = "transition_to" /\ last.target = "PendingReview") =>
        /\ is_ok(last.result) <=>
              /\ \E p \in last.before.priority : p <= 3
              /\ last.before.status = "InProgress"
        /\ is_err(last.result) => task.status = last.before.status

C9_Witness ==
    /\ last.op = "transition_to"
    /\ last.target = "PendingReview"
    /\ last.before.status = "InProgress"
    /\ last.before.priority = Some(4)
    /\ is_err(last.result)

\* C10: a Task method that returns an error leaves every field of the task
\* (id, name, priority, status, created_at, updated_at) as it was before the
\* call.
C10_ErrorLeavesTaskUntouched ==
    is_err(last.result) => task = last.before

C10_Witness ==
    /\ is_err(last.result)
    /\ last.op = "update_priority"
    /\ last.priority = Some(11)
    /\ now > task.updated_at

(***************************************************************************)
(* Validation: the second constructor of Task and TaskDomainService        *)
(* (src/domain/services/task_domain_service.rs)                            *)
(***************************************************************************)
\* the limit of validate_task_name
MaxNameLen == 255

\* Task::new_with_status
new_with_status(id, name, priority, status, created_at, updated_at) ==
    IF str_is_empty(trim(name))
    THEN [value |-> None, result |-> Err("Task name cannot be empty")]
    ELSE IF \E p \in priority : p < 1 \/ p > 10
    THEN [value |-> None, result |-> Err("Priority must be between 1 and 10")]
    ELSE [value |-> Some([id |-> id,
                          name |-> trim(name),
                          priority |-> priority,
                          status |-> status,
                          created_at |-> created_at,
                          updated_at |-> updated_at]),
          result |-> Ok]

\* TaskDomainService::validate_task_name
validate_task_name(name) ==
    IF str_is_empty(trim(name))
    THEN Err("Task name cannot be empty")
    ELSE IF str_len(name) > MaxNameLen
    THEN Err("Task name cannot exceed 255 characters")
    ELSE Ok

\* a plausible slip: the lower limit is 0
validate_priority_from_zero(priority) ==
    IF \E p \in priority : p < 0 \/ p > 10
    THEN Err("Priority must be between 1 and 10")
    ELSE Ok

\* TaskDomainService::validate_priority
validate_priority(priority) ==
    IF \E p \in priority : p < 1 \/ p > 10
    THEN Err("Priority must be between 1 and 10")
    ELSE Ok

\* TaskDomainService::can_update_task
can_update_task(new_name, new_priority) ==
    IF \E name \in new_name : is_err(validate_task_name(name))
    THEN validate_task_name(CHOOSE name \in new_name : TRUE)
    ELSE validate_priority(new_priority)

\* names at the limit of 255 characters and one beyond it, bare and behind
\* one leading blank
LongNames == { Str(l, c, "a", 0) : l \in {0, 1}, c \in {MaxNameLen, MaxNameLen + 1} }

ValidationNames == NameInputs \cup LongNames

Validation(fn, name, priority, status, result, value) ==
    [fn |-> fn, name |-> name, priority |-> priority, status |-> status,
     result |-> result, value |-> value]

InitValidate ==
    /\ TaskIdle /\ PolicyIdle /\ ValidateIdle /\ AnalyticsIdle /\ StoreIdle /\ UseCasesIdle /\ CompletionIdle

offValidate == <<taskVars, q, history, an, rows, db, pop>>
offAnalytics == <<taskVars, q, v, rows, db, pop>>
offStore == <<taskVars, q, v, history, an, db, pop>>
offUseCases == <<taskVars, q, v, history, an, rows, pop>>
offCompletion == <<taskVars, q, v, history, an, rows, db>>

\* a constructor leaves the task it built, or none
CallTaskNew ==
    \E name \in ValidationNames, priority \in PriorityInputs :
       LET r == Task_new(1, name, priority, 0) IN
       /\ v' = Validation("Task::new", name, priority, "Pending", r.result, r.value)
       /\ UNCHANGED offValidate

\* the status is stored as given, whatever it is: the default one and
\* another one stand for all five
CallNewWithStatus ==
    \E name \in ValidationNames, priority \in PriorityInputs,
       status \in {"Pending", "Completed"} :
       LET r == new_with_status(1, name, priority, status, 0, 0) IN
       /\ v' = Validation("Task::new_with_status", name, priority, status, r.result, r.value)
       /\ UNCHANGED offValidate

\* a method is called on the task the last constructor or method left
CallUpdateName ==
    \E name \in ValidationNames, t \in v.value :
       LET r == update_name(t, name, 0) IN
       /\ v' = Validation("Task::update_name", name, None, t.status, r.result, Some(r.self))
       /\ UNCHANGED offValidate

CallUpdatePriority ==
    \E priority \in PriorityInputs, t \in v.value :
       LET r == update_priority(t, priority, 0) IN
       /\ v' = Validation("Task::update_priority", NoStr, priority, t.status, r.result,
                          Some(r.self))
       /\ UNCHANGED offValidate

\* the validators look at their argument only, and leave no task
CallValidateTaskName ==
    \E name \in ValidationNames :
       /\ v' = Validation("validate_task_name", name, None, "Pending",
                          validate_task_name(name), None)
       /\ UNCHANGED offValidate

CallValidatePriority ==
    \E priority \in PriorityInputs :
       /\ v' = Validation("validate_priority", NoStr, priority, "Pending",
                          validate_priority(priority), None)
       /\ UNCHANGED offValidate

NextValidate ==
    \/ CallTaskNew
    \/ CallNewWithStatus
    \/ CallUpdateName
    \/ CallUpdatePriority
    \/ CallValidateTaskName
    \/ CallValidatePriority

SpecValidate == InitValidate /\ [][NextValidate]_vars

\* a name is acceptable when it is non-empty after trimming and its trimmed
\* text has at most 255 characters
NameAcceptable(name) ==
    ~str_is_empty(trim(name)) /\ str_len(trim(name)) <= MaxNameLen

\* a priority is acceptable when it is absent or within 1..10
PriorityAcceptable(priority) ==
    \A p \in priority : 1 <= p /\ p <= 10

\* C11: Task::new, Task::new_with_status and update_name accept a name
\* exactly when it is non-empty after trimming and at most 255 characters
\* long, so the name a task holds is always trimmed, non-empty and at most
\* 255 characters long.
C11_NameInvariant ==
    /\ (v.fn \in {"Task::new", "Task::new_with_status", "Task::update_name"}
          /\ PriorityAcceptable(v.priority))
         => (is_ok(v.result) <=> NameAcceptable(v.name))
    /\ \A t \in v.value :
          /\ t.name = trim(t.name)
          /\ ~str_is_empty(t.name)
          /\ str_len(t.name) <= MaxNameLen

\* C12: Task::new, Task::new_with_status, update_priority and
\* validate_priority accept a priority exactly when it is absent or within
\* 1..10 (the constructors given a name they accept), so the priority a task
\* holds is always absent or within 1..10.
C12_PriorityInvariant ==
    /\ v.fn \in {"Task::new", "Task::new_with_status"} =>
          /\ ~PriorityAcceptable(v.priority) => is_err(v.result)
          /\ (~str_is_empty(trim(v.name)) /\ PriorityAcceptable(v.priority)) => is_ok(v.result)
    /\ v.fn \in {"Task::update_priority", "validate_priority"} =>
          (is_ok(v.result) <=> PriorityAcceptable(v.priority))
    /\ \A t \in v.value : PriorityAcceptable(t.priority)

C12_Witness ==
    /\ v.fn = "Task::update_priority"
    /\ v.priority = Some(10)
    /\ is_ok(v.result)
    /\ \E t \in v.value : t.priority = Some(10)

(***************************************************************************)
(* StatusHistory and TaskAnalytics                                         *)
(* (src/domain/value_objects/status_history.rs).  A timestamp is a number  *)
(* of seconds, a chrono::Duration the difference of two.                   *)
(***************************************************************************)
\* the i-th well-formed UUID string
Uuid(i) == <<"uuid", i>>

\* StatusHistory::new
StatusHistory_new(id, task_id, from_status, to_status, changed_at, changed_by, comment, user_role) ==
    [id |-> id, task_id |-> task_id, from_status |-> from_status, to_status |-> to_status,
     changed_at |-> changed_at, changed_by |-> changed_by, comment |-> comment,
     user_role |-> user_role]

\* StatusHistory::is_initial_creation
is_initial_creation(self) == self.from_status = None

\* a plausible slip: only the target of the entry is looked at
is_approval_any_completion(self) == self.to_status = "Completed"

\* StatusHistory::is_approval
is_approval(self) == self.from_status = Some("PendingReview") /\ self.to_status = "Completed"

\* the local variables of from_history as the loop starts
loop_start ==
    [total_time_in_progress |-> 0,
     time_to_completion |-> None,
     was_approved |-> FALSE,
     approval_time |-> None,
     completed_at |-> None,
     in_progress_start |-> None,
     pending_review_start |-> None,
     broke |-> FALSE]

\* the match arm TaskStatus::InProgress
arm_in_progress(acc, entry) ==
    [acc EXCEPT !.in_progress_start = Some(entry.changed_at)]

\* the match arm TaskStatus::PendingReview
arm_pending_review(acc, entry) ==
    [acc EXCEPT
       !.total_time_in_progress =
           IF acc.in_progress_start # None
           THEN LET start == CHOOSE x \in acc.in_progress_start : TRUE IN
                @ + (entry.changed_at - start)
           ELSE @,
       !.pending_review_start = Some(entry.changed_at)]

\* a plausible slip: the review time is reported for every completion
arm_completed_review_time_always(acc, entry, created_at) ==
    [acc EXCEPT
       !.total_time_in_progress =
           IF acc.in_progress_start # None
           THEN LET start == CHOOSE x \in acc.in_progress_start : TRUE IN
                @ + (entry.changed_at - start)
           ELSE @,
       !.was_approved = IF is_approval(entry) THEN TRUE ELSE @,
       !.approval_time =
           IF acc.pending_review_start # None
           THEN LET review_start == CHOOSE x \in acc.pending_review_start : TRUE IN
                Some(entry.changed_at - review_start)
           ELSE @,
       !.completed_at = Some(entry.changed_at),
       !.time_to_completion = Some(entry.changed_at - created_at),
       !.broke = TRUE]

\* a plausible slip: the duration is measured from the start of the work
arm_completed_from_start(acc, entry, created_at) ==
    [acc EXCEPT
       !.total_time_in_progress =
           IF acc.in_progress_start # None
           THEN LET start == CHOOSE x \in acc.in_progress_start : TRUE IN
                @ + (entry.changed_at - start)
           ELSE @,
       !.was_approved = IF is_approval(entry) THEN TRUE ELSE @,
       !.approval_time =
           IF is_approval(entry) /\ acc.pending_review_start # None
           THEN LET review_start == CHOOSE x \in acc.pending_review_start : TRUE IN
                Some(entry.changed_at - review_start)
           ELSE @,
       !.completed_at = Some(entry.changed_at),
       !.time_to_completion =
           IF acc.in_progress_start # None
           THEN LET start == CHOOSE x \in acc.in_progress_start : TRUE IN
                Some(entry.changed_at - start)
           ELSE Some(entry.changed_at - created_at),
       !.broke = TRUE]

\* the match arm TaskStatus::Completed, which ends the loop
arm_completed(acc, entry, created_at) ==
    [acc EXCEPT
       !.total_time_in_progress =
           IF acc.in_progress_start # None
           THEN LET start == CHOOSE x \in acc.in_progress_start : TRUE IN
                @ + (entry.changed_at - start)
           ELSE @,
       !.was_approved = IF is_approval(entry) THEN TRUE ELSE @,
       !.approval_time =
           IF is_approval(entry) /\ acc.pending_review_start # None
           THEN LET review_start == CHOOSE x \in acc.pending_review_start : TRUE IN
                Some(entry.changed_at - review_start)
           ELSE @,
       !.completed_at = Some(entry.changed_at),
       !.time_to_completion = Some(entry.changed_at - created_at),
       !.broke = TRUE]

\* a plausible slip: a cancellation is not an end time
arm_cancelled_without_end(acc, entry) ==
    [acc EXCEPT !.broke = TRUE]

\* the match arm TaskStatus::Cancelled, which ends the loop
arm_cancelled(acc, entry) ==
    [acc EXCEPT !.completed_at = Some(entry.changed_at), !.broke = TRUE]

\* a plausible slip: the loop has no break
RECURSIVE history_loop_to_the_end(_, _, _, _)
history_loop_to_the_end(entries, i, acc, created_at) ==
    IF i > Len(entries)
    THEN acc
    ELSE LET entry == entries[i] IN
         history_loop_to_the_end(
            entries, i + 1,
            CASE entry.to_status = "InProgress" -> arm_in_progress(acc, entry)
              [] entry.to_status = "PendingReview" -> arm_pending_review(acc, entry)
              [] entry.to_status = "Completed" -> arm_completed(acc, entry, created_at)
              [] entry.to_status = "Cancelled" -> arm_cancelled(acc, entry)
              [] OTHER -> acc,
            created_at)

\* the for loop of from_history from entry i on
RECURSIVE history_loop(_, _, _, _)
history_loop(entries, i, acc, created_at) ==
    IF i > Len(entries) \/ acc.broke
    THEN acc
    ELSE LET entry == entries[i] IN
         history_loop(
            entries, i + 1,
            CASE entry.to_status = "InProgress" -> arm_in_progress(acc, entry)
              [] entry.to_status = "PendingReview" -> arm_pending_review(acc, entry)
              [] entry.to_status = "Completed" -> arm_completed(acc, entry, created_at)
              [] entry.to_status = "Cancelled" -> arm_cancelled(acc, entry)
              [] OTHER -> acc,
            created_at)

\* history.iter().find(|h| h.is_initial_creation()): the first such entry, if any
find_creation_entry(entries) ==
    LET found == { i \in DOMAIN entries : is_initial_creation(entries[i]) } IN
    IF found = {} THEN None
    ELSE Some(entries[CHOOSE i \in found : \A j \in found : i <= j])

\* the index of the first entry that ends the walk, or the last index
WalkEnd(entries) ==
    LET ends == { i \in DOMAIN entries : entries[i].to_status \in {"Completed", "Cancelled"} } IN
    IF ends = {} THEN Len(entries) ELSE CHOOSE i \in ends : \A j \in ends : i <= j

\* a plausible slip: a time in progress of zero is reported as a duration
TaskAnalytics_of_zero_kept(entries, task_id, created_at, acc) ==
    [task_id |-> task_id,
     total_time_in_progress |-> Some(acc.total_time_in_progress),
     time_to_completion |-> acc.time_to_completion,
     number_of_transitions |-> Len(entries),
     was_approved |-> acc.was_approved,
     approval_time |-> acc.approval_time,
     created_at |-> created_at,
     completed_at |-> acc.completed_at]

\* a plausible slip: the entries are counted as far as the walk went
TaskAnalytics_of_walk(entries, task_id, created_at, acc) ==
    [task_id |-> task_id,
     total_time_in_progress |->
         IF acc.total_time_in_progress = 0 THEN None ELSE Some(acc.total_time_in_progress),
     time_to_completion |-> acc.time_to_completion,
     number_of_transitions |-> WalkEnd(entries),
     was_approved |-> acc.was_approved,
     approval_time |-> acc.approval_time,
     created_at |-> created_at,
     completed_at |-> acc.completed_at]

\* the TaskAnalytics that from_history builds after the loop
TaskAnalytics_of(entries, task_id, created_at, acc) ==
    [task_id |-> task_id,
     total_time_in_progress |->
         IF acc.total_time_in_progress = 0 THEN None ELSE Some(acc.total_time_in_progress),
     time_to_completion |-> acc.time_to_completion,
     number_of_transitions |-> Len(entries),
     was_approved |-> acc.was_approved,
     approval_time |-> acc.approval_time,
     created_at |-> created_at,
     completed_at |-> acc.completed_at]

\* TaskAnalytics::from_history: Option<TaskAnalytics>
from_history(entries) ==
    IF entries = <<>>
    THEN None
    ELSE LET task_id == entries[1].task_id
             creation_entry == find_creation_entry(entries)
         IN  IF creation_entry = None
             THEN None
             ELSE LET created_at == (CHOOSE c \in creation_entry : TRUE).changed_at IN
                  Some(TaskAnalytics_of(entries, task_id, created_at,
                                        history_loop(entries, 1, loop_start, created_at)))

\* i64 division and remainder, which truncate toward zero
i64_div(a, b) == IF a >= 0 THEN a \div b ELSE -((-a) \div b)

i64_rem(a, b) == a - b * i64_div(a, b)

\* format_duration (src/application/dto/task_dto.rs); the text is kept as its parts
format_duration(duration) ==
    LET total_seconds == duration
        days == i64_div(total_seconds, 86400)
        hours == i64_div(i64_rem(total_seconds, 86400), 3600)
        minutes == i64_div(i64_rem(total_seconds, 3600), 60)
        seconds == i64_rem(total_seconds, 60)
    IN  IF days > 0 THEN <<days, "d ", hours, "h ", minutes, "m ", seconds, "s">>
        ELSE IF hours > 0 THEN <<hours, "h ", minutes, "m ", seconds, "s">>
        ELSE IF minutes > 0 THEN <<minutes, "m ", seconds, "s">>
        ELSE <<seconds, "s">>

\* Option::map(format_duration)
map_format_duration(d) == { format_duration(x) : x \in d }

\* From<TaskAnalytics> for TaskAnalyticsDto
TaskAnalyticsDto_from(analytics) ==
    [task_id |-> analytics.task_id,
     total_time_in_progress |-> map_format_duration(analytics.total_time_in_progress),
     time_to_completion |-> map_format_duration(analytics.time_to_completion),
     number_of_transitions |-> analytics.number_of_transitions,
     was_approved |-> analytics.was_approved,
     approval_time |-> map_format_duration(analytics.approval_time),
     created_at |-> analytics.created_at,
     completed_at |-> analytics.completed_at]

\* PostgresStatusHistoryRepository::get_task_analytics over the rows that
\* find_by_task_id returned
repo_get_task_analytics(histories) == from_history(histories)

\* UseCaseError values and the Ok of a use case
NotFound(msg, id) == <<"NotFound", msg, id>>

UseCaseOk(dto) == <<"Ok", dto>>

\* TaskUseCases::get_task_analytics; task_found is what find_by_id returned
get_task_analytics(id, task_found, histories) ==
    IF ~task_found
    THEN NotFound("Task with id {} not found", id)
    ELSE LET analytics == repo_get_task_analytics(histories) IN
         IF analytics = None
         THEN NotFound("No analytics found for task {}", id)
         ELSE UseCaseOk(TaskAnalyticsDto_from(CHOOSE a \in analytics : TRUE))

\* TaskUseCases::get_task_history
get_task_history(id, task_found, histories) ==
    IF ~task_found
    THEN NotFound("Task with id {} not found", id)
    ELSE LET history_dtos == histories
             analytics == repo_get_task_analytics(histories)
         IN  UseCaseOk(
               [task_id |-> id,
                history |-> history_dtos,
                total_time_in_progress |->
                    IF analytics # None
                    THEN map_format_duration((CHOOSE a \in analytics : TRUE).total_time_in_progress)
                    ELSE None,
                number_of_transitions |->
                    IF analytics # None
                    THEN (CHOOSE a \in analytics : TRUE).number_of_transitions
                    ELSE Len(history_dtos)])

(***************************************************************************)
(* The history of one task as the status_history table holds it, read by   *)
(* find_by_task_id in changed_at order, and what the analytics code makes  *)
(* of it.                                                                  *)
(***************************************************************************)
\* the id of the task whose history is read
TheTask == 1

\* seconds between an entry and the one before it
Gaps == {0, 1, 2}

\* the instants at which the task may have been created
CreationTimes == {0, 1}

\* the entries of a sequence in the opposite order
Reverse(entries) == [i \in 1..Len(entries) |-> entries[Len(entries) + 1 - i]]

\* what the three readers return for the rows read
Analyse(fn, entries) ==
    [fn |-> fn,
     analytics |-> from_history(entries),
     reordered |-> from_history(Reverse(entries)),
     get_task_analytics |-> get_task_analytics(TheTask, TRUE, entries),
     get_task_history |-> get_task_history(TheTask, TRUE, entries)]

InitAnalytics ==
    /\ history = <<>>
    /\ an = Analyse("none", <<>>)
    /\ TaskIdle /\ PolicyIdle /\ ValidateIdle /\ StoreIdle /\ UseCasesIdle /\ CompletionIdle

\* the table holds the creation entry of the task
RecordCreation ==
    /\ history = <<>>
    /\ \E at \in CreationTimes :
         history' = <<StatusHistory_new(Uuid(1), TheTask, None, "Pending", at, "system", None, "User")>>
    /\ an' = Analyse("creation", history')
    /\ UNCHANGED offAnalytics

\* the table holds one more entry of a status change
RecordChange ==
    /\ Len(history) < MaxHistory
    /\ \E to \in TaskStatus \ {"Pending"}, gap \in Gaps :
         LET from == IF history = <<>> THEN "Pending" ELSE history[Len(history)].to_status
             at == IF history = <<>> THEN gap ELSE history[Len(history)].changed_at + gap
         IN  history' = Append(history,
                 StatusHistory_new(Uuid(Len(history) + 1), TheTask, Some(from), to, at,
                                   "system", None, "User"))
    /\ an' = Analyse("change", history')
    /\ UNCHANGED offAnalytics

NextAnalytics == RecordCreation \/ RecordChange

SpecAnalytics == InitAnalytics /\ [][NextAnalytics]_vars

(***************************************************************************)
(* Properties of the analytics                                             *)
(***************************************************************************)
\* the sum of f over the indices in S
RECURSIVE SumOver(_, _)
SumOver(f, S) ==
    IF S = {} THEN 0
    ELSE LET i == CHOOSE x \in S : TRUE IN f[i] + SumOver(f, S \ {i})

\* the entries that put the task in InProgress and are followed, before the
\* history's first terminal entry has passed, by the entry that closes them
ClosedInProgress(entries) ==
    { i \in 1..(WalkEnd(entries) - 1) :
        /\ entries[i].to_status = "InProgress"
        /\ entries[i + 1].to_status \in {"PendingReview", "Completed"} }

\* the time the entries show the task in InProgress
InProgressTime(entries) ==
    SumOver([i \in 1..Len(entries) |->
                IF i < Len(entries) THEN entries[i + 1].changed_at - entries[i].changed_at ELSE 0],
            ClosedInProgress(entries))

\* an absent duration counts as zero seconds
DurationOrZero(d) == IF d = None THEN 0 ELSE CHOOSE x \in d : TRUE

\* the entries are a creation entry followed by status changes that each
\* start where the entry before ended and follow the transition relation
WellFormed(entries) ==
    /\ entries # <<>>
    /\ is_initial_creation(entries[1])
    /\ \A i \in 2..Len(entries) :
         /\ entries[i].from_status = Some(entries[i - 1].to_status)
         /\ can_transition_to(entries[i - 1].to_status, entries[i].to_status)

\* C13: for the history of a task that moved along the transition relation,
\* the total_time_in_progress that from_history reports is the sum, over the
\* entries that put the task in InProgress, of the time to the PendingReview
\* or Completed entry that closes them; time spent in PendingReview is not
\* part of it
C13_TimeInProgress ==
    WellFormed(history) =>
        \A a \in an.analytics :
            DurationOrZero(a.total_time_in_progress) = InProgressTime(history)

\* the entries are those of a creation followed by the given status changes
Shows(targets) ==
    /\ Len(history) = Len(targets) + 1
    /\ is_initial_creation(history[1])
    /\ \A i \in 1..Len(targets) : history[i + 1].to_status = targets[i]

\* C14 as stated: was_approved is true exactly when some entry of the history
\* goes from PendingReview to Completed
C14_ApprovedIffApprovalEntry ==
    \A a \in an.analytics :
        a.was_approved <=> \E i \in DOMAIN history : is_approval(history[i])

\* C14: was_approved is true exactly when the first entry of the history that
\* goes to Completed or Cancelled is an entry from PendingReview to Completed
C14_ApprovedIffFirstTerminalIsApproval ==
    \A a \in an.analytics :
        a.was_approved <=>
            LET e == history[WalkEnd(history)] IN
            e.from_status = Some("PendingReview") /\ e.to_status = "Completed"

\* an approval recorded after a cancellation is not counted
C14_Witness ==
    /\ Shows(<<"Cancelled", "PendingReview", "Completed">>)
    /\ \E a \in an.analytics : ~a.was_approved

\* C15: time_to_completion is present exactly when the task was completed and
\* is then the time from the creation entry to the Completed entry; a history
\* that ends in Cancelled or is unfinished has none
C15_TimeToCompletion ==
    \A a \in an.analytics :
        LET e == history[WalkEnd(history)]
            creation == CHOOSE c \in find_creation_entry(history) : TRUE
        IN  a.time_to_completion =
                IF e.to_status = "Completed"
                THEN Some(e.changed_at - creation.changed_at)
                ELSE None

\* a task created after time 0 is completed after work that took time
C15_Witness ==
    /\ Shows(<<"InProgress", "Completed">>)
    /\ history[1].changed_at = 1 /\ history[2].changed_at = 2 /\ history[3].changed_at = 4
    /\ \E a \in an.analytics : a.time_to_completion = Some(3)

\* C16: number_of_transitions is the number of entries of the whole history,
\* the creation entry and the entries after a terminal one included
C16_NumberOfTransitions ==
    \A a \in an.analytics : a.number_of_transitions = Len(history)

\* a history that goes on after its first terminal entry
C16_Witness ==
    /\ Shows(<<"Completed", "InProgress", "Cancelled">>)
    /\ \E a \in an.analytics : a.number_of_transitions = 4

\* C17: a history that has entries but no creation entry is answered by
\* get_task_analytics and get_task_history with a validation error, never
\* with analytics and never with not-found
C17_MissingCreationIsValidationError ==
    (history # <<>> /\ find_creation_entry(history) = None)
        => /\ an.get_task_analytics[1] = "ValidationError"
           /\ an.get_task_history[1] = "ValidationError"

\* C18: from_history gives for another ordering of the entries the analytics
\* it gives for the ordering by changed_at
C18_OrderInsensitive == an.reordered = an.analytics

(***************************************************************************)
(* The status_history table behind PostgresStatusHistoryRepository         *)
(* (src/infrastructure/adapters/repositories/                              *)
(* postgres_status_history_repository.rs).  The table is the set of its    *)
(* rows; id is its primary key.                                            *)
(***************************************************************************)
\* RepositoryError values and the Ok of a repository call
RepoOk(value) == <<"Ok", value>>

RepoValidationError(msg) == <<"ValidationError", msg>>

RepoNotFound(msg, id) == <<"NotFound", msg, id>>

RepoDatabaseError == <<"DatabaseError">>

\* Uuid::parse_str(..).is_ok()
is_uuid(id) == id[1] = "uuid"

\* the ids a caller may put in a StatusHistory: well-formed ones and one that is not
EntryIds == { Uuid(i) : i \in 1..MaxRows } \cup { <<"not-a-uuid">> }

\* the entries a caller may hand to save
SaveInputs ==
    { StatusHistory_new(id, task_id, from_status, to_status, changed_at, "system", None, "User") :
        id \in EntryIds, task_id \in {1, 2}, from_status \in {None, Some("Pending")},
        to_status \in {"InProgress", "Completed"}, changed_at \in {0, 1} }

\* INSERT .. ON CONFLICT (id) DO UPDATE SET from_status, to_status, changed_at,
\* changed_by, comment, user_role
upsert(table, entry) ==
    IF \E r \in table : r.id = entry.id
    THEN { IF r.id = entry.id
           THEN [r EXCEPT !.from_status = entry.from_status,
                          !.to_status = entry.to_status,
                          !.changed_at = entry.changed_at,
                          !.changed_by = entry.changed_by,
                          !.comment = entry.comment,
                          !.user_role = entry.user_role]
           ELSE r : r \in table }
    ELSE table \cup {entry}

\* PostgresStatusHistoryRepository::save; db_ok is whether the database
\* carried the statement out
history_save(table, entry, db_ok) ==
    IF ~is_uuid(entry.id)
    THEN [table |-> table, result |-> RepoValidationError("Invalid UUID: {}")]
    ELSE IF ~db_ok
    THEN [table |-> table, result |-> RepoDatabaseError]
    ELSE [table |-> upsert(table, entry), result |-> RepoOk(entry.id)]

\* PostgresStatusHistoryRepository::delete
history_delete(table, id, db_ok) ==
    IF ~is_uuid(id)
    THEN [table |-> table, result |-> RepoValidationError("Invalid UUID: {}")]
    ELSE IF ~db_ok
    THEN [table |-> table, result |-> RepoDatabaseError]
    ELSE IF ~\E r \in table : r.id = id
    THEN [table |-> table,
          result |-> RepoNotFound("Status history with id {} not found", id)]
    ELSE [table |-> { r \in table : r.id # id }, result |-> RepoOk(<<>>)]

InitStore ==
    /\ rows = NoStore
    /\ TaskIdle /\ PolicyIdle /\ ValidateIdle /\ AnalyticsIdle /\ UseCasesIdle /\ CompletionIdle

HistorySave ==
    /\ \E entry \in SaveInputs, db_ok \in BOOLEAN :
         LET r == history_save(rows.table, entry, db_ok) IN
         rows' = [table |-> r.table, fn |-> "save", result |-> r.result]
    /\ UNCHANGED offStore

HistoryDelete ==
    /\ \E id \in EntryIds, db_ok \in BOOLEAN :
         LET r == history_delete(rows.table, id, db_ok) IN
         rows' = [table |-> r.table, fn |-> "delete", result |-> r.result]
    /\ UNCHANGED offStore

NextStore == HistorySave \/ HistoryDelete

SpecStore == InitStore /\ [][NextStore]_vars

\* C20: a save never changes an entry that already exists: every row the
\* table held before a call of save is in the table after it, with the same
\* from_status, to_status, changed_at, changed_by, comment and user_role
C20_SaveIsAppendOnly ==
    [][rows'.fn = "save" => \A r \in rows.table : r \in rows'.table]_vars

(***************************************************************************)
(* TaskUseCases over PostgresTaskRepository                                *)
(* (src/application/use_cases/task_use_cases.rs,                           *)
(* src/infrastructure/adapters/repositories/postgres_task_repository.rs).  *)
(* db.tasks and db.status_history are the two tables, db.calls the         *)
(* requests in flight, one step per stretch of code between two awaits;    *)
(* db.changes lists the status changes that update_task_status reported    *)
(* as done; of the call that returned last, db.op is the use case, db.repo *)
(* the error a repository returned to it, db.last its result and           *)
(* db.response the HTTP status of its error response; db.requests is the   *)
(* number of requests sent so far.  Every Utc::now() of this part reads    *)
(* the instant 0.                                                          *)
(***************************************************************************)
UseCaseValidationError(err) == <<"ValidationError", err>>

\* From<RepositoryError> for UseCaseError
UseCaseError_from(error) ==
    CASE error[1] = "NotFound" -> <<"NotFound">> \o Tail(error)
      [] error[1] = "ValidationError" -> <<"ValidationError">> \o Tail(error)
      [] error[1] = "DatabaseError" -> <<"RepositoryError">> \o Tail(error)

\* a plausible slip: only a missing resource is told from an internal error
WebError_from_not_found_only(error) ==
    CASE error[1] = "NotFound" -> <<"WebError::NotFound">> \o Tail(error)
      [] OTHER -> <<"WebError::InternalError">> \o Tail(error)

\* From<UseCaseError> for WebError (src/infrastructure/adapters/web/task_controller.rs)
WebError_from(error) ==
    CASE error[1] = "ValidationError" -> <<"WebError::ValidationError">> \o Tail(error)
      [] error[1] = "NotFound" -> <<"WebError::NotFound">> \o Tail(error)
      [] error[1] = "RepositoryError" -> <<"WebError::InternalError">> \o Tail(error)

\* IntoResponse for WebError: the HTTP status of the response
into_response(web_error) ==
    CASE web_error[1] = "WebError::ValidationError" -> 400
      [] web_error[1] = "WebError::NotFound" -> 404
      [] web_error[1] = "WebError::InternalError" -> 500

\* the `?` of a handler on the Result of a use case: the HTTP status of the
\* error response, if the use case failed
handler_response(result) ==
    IF result[1] = "Ok" THEN None ELSE Some(into_response(WebError_from(result)))

\* PostgresTaskRepository::find_by_id: Result<Option<Task>, RepositoryError>;
\* db_ok is whether the database carried the statement out
task_find_by_id(table, id, db_ok) ==
    IF ~db_ok
    THEN [value |-> None, result |-> RepoDatabaseError]
    ELSE IF ~\E r \in table : r.id = id
    THEN [value |-> None, result |-> Ok]
    ELSE LET row == CHOOSE r \in table : r.id = id
             t == new_with_status(row.id, row.name, row.priority, row.status,
                                  row.created_at, row.updated_at)
         IN  IF is_err(t.result)
             THEN [value |-> None, result |-> RepoValidationError(t.result)]
             ELSE [value |-> t.value, result |-> Ok]

\* PostgresTaskRepository::save: INSERT INTO tasks .. RETURNING task_id, the
\* key drawn from the table's sequence
task_save(table, t, db_ok) ==
    IF ~db_ok
    THEN [table |-> table, result |-> RepoDatabaseError]
    ELSE LET task_id == Cardinality(table) + 1 IN
         [table |-> table \cup {[t EXCEPT !.id = task_id]}, result |-> RepoOk(task_id)]

\* a plausible slip: the UPDATE is conditional on the stored status (WHERE
\* task_id = .. AND status IN the statuses the new one can follow)
task_update_if_unchanged(table, t, db_ok) ==
    IF ~db_ok
    THEN [table |-> table, result |-> RepoDatabaseError]
    ELSE IF ~\E r \in table : r.id = t.id /\ can_transition_to(r.status, t.status)
    THEN [table |-> table, result |-> RepoNotFound("Task with id {} not found", t.id)]
    ELSE [table |-> { IF r.id = t.id
                      THEN [r EXCEPT !.name = t.name, !.priority = t.priority,
                                     !.status = t.status, !.updated_at = t.updated_at]
                      ELSE r : r \in table },
          result |-> RepoOk(<<>>)]

\* PostgresTaskRepository::update: UPDATE tasks SET name, priority, status,
\* updated_at WHERE task_id
task_update(table, t, db_ok) ==
    IF ~db_ok
    THEN [table |-> table, result |-> RepoDatabaseError]
    ELSE IF ~\E r \in table : r.id = t.id
    THEN [table |-> table, result |-> RepoNotFound("Task with id {} not found", t.id)]
    ELSE [table |-> { IF r.id = t.id
                      THEN [r EXCEPT !.name = t.name, !.priority = t.priority,
                                     !.status = t.status, !.updated_at = t.updated_at]
                      ELSE r : r \in table },
          result |-> RepoOk(<<>>)]

\* Task::transition_to_with_role, which update_task_status calls: the policy
\* is asked with the caller's role, then the task moves
transition_to_with_role(self, new_status, user_role, clock) ==
    LET allowed == can_transition(self.status, new_status, is_high_priority(self), user_role) IN
    IF is_err(allowed) THEN Ret(self, allowed) ELSE transition_to(self, new_status, clock)

\* the result of a use case that no repository failed
Returns(table, result) == [table |-> table, result |-> result, repo |-> None]

\* the result of a use case at the `?` on the error of a repository
Fails(table, error) == [table |-> table, result |-> UseCaseError_from(error), repo |-> Some(error)]

\* TaskUseCases::create_task
create_task(table, name, priority, db_ok) ==
    IF is_err(validate_task_name(name))
    THEN Returns(table, UseCaseValidationError(validate_task_name(name)))
    ELSE IF is_err(validate_priority(priority))
    THEN Returns(table, UseCaseValidationError(validate_priority(priority)))
    ELSE LET t == Task_new(0, name, priority, 0) IN
         IF is_err(t.result)
         THEN Returns(table, UseCaseValidationError(t.result))
         ELSE LET saved == task_save(table, CHOOSE x \in t.value : TRUE, db_ok) IN
              IF saved.result[1] # "Ok"
              THEN Fails(table, saved.result)
              ELSE Returns(saved.table, UseCaseOk(saved.result[2]))

\* TaskUseCases::update_task_status from its start to the await of
\* find_by_id; table is the task found, if the call goes on
update_task_status_find(table, id, db_ok) ==
    LET found == task_find_by_id(table, id, db_ok) IN
    IF found.result[1] # "Ok"
    THEN Fails(None, found.result)
    ELSE IF found.value = None
    THEN Returns(None, NotFound("Task with id {} not found", id))
    ELSE Returns(found.value, Ok)

\* a plausible slip: the call acts with the role of a manager
update_task_status_update_as_manager(table, t, status, db_ok) ==
    LET user_role == "Manager"
        allowed == can_transition(t.status, status, is_high_priority(t), user_role)
        moved == transition_to_with_role(t, status, user_role, 0)
        updated == task_update(table, moved.self, db_ok)
    IN  IF is_err(allowed)
        THEN Returns(table, UseCaseValidationError(allowed))
        ELSE IF is_err(moved.result)
        THEN Returns(table, UseCaseValidationError(moved.result))
        ELSE IF updated.result[1] # "Ok"
        THEN Fails(table, updated.result)
        ELSE Returns(updated.table, UseCaseOk(moved.self))

\* TaskUseCases::update_task_status from the task that find_by_id returned to
\* its end
update_task_status_update(table, t, status, db_ok) ==
    LET user_role == "User"
        allowed == can_transition(t.status, status, is_high_priority(t), user_role)
        moved == transition_to_with_role(t, status, user_role, 0)
        updated == task_update(table, moved.self, db_ok)
    IN  IF is_err(allowed)
        THEN Returns(table, UseCaseValidationError(allowed))
        ELSE IF is_err(moved.result)
        THEN Returns(table, UseCaseValidationError(moved.result))
        ELSE IF updated.result[1] # "Ok"
        THEN Fails(table, updated.result)
        ELSE Returns(updated.table, UseCaseOk(moved.self))

\* TaskUseCases::update_task from its start to the await of find_by_id; table
\* is the task found, if the call goes on
update_task_find(table, id, db_ok) ==
    LET found == task_find_by_id(table, id, db_ok) IN
    IF found.result[1] # "Ok"
    THEN Fails(None, found.result)
    ELSE IF found.value = None
    THEN Returns(None, NotFound("Task with id {} not found", id))
    ELSE Returns(found.value, Ok)

\* TaskUseCases::update_task from the task that find_by_id returned to its end
update_task_update(table, t, name, priority, db_ok) ==
    LET allowed == can_update_task(name, priority)
        named == IF name # None THEN update_name(t, CHOOSE n \in name : TRUE, 0) ELSE Ret(t, Ok)
        prioritised == IF priority # None
                       THEN update_priority(named.self, priority, 0)
                       ELSE Ret(named.self, Ok)
        updated == task_update(table, prioritised.self, db_ok)
    IN  IF is_err(allowed)
        THEN Returns(table, UseCaseValidationError(allowed))
        ELSE IF is_err(named.result)
        THEN Returns(table, UseCaseValidationError(named.result))
        ELSE IF is_err(prioritised.result)
        THEN Returns(table, UseCaseValidationError(prioritised.result))
        ELSE IF updated.result[1] # "Ok"
        THEN Fails(table, updated.result)
        ELSE Returns(updated.table, UseCaseOk(<<>>))

\* the requests a caller may send to create_task
CreateNames == { Str(0, 1, "a", 0), Str(0, 0, "", 0) }

CreatePriorities == { None, Some(2), Some(11) }

\* the ids a caller may ask for: those of the first rows of the tasks table
RequestIds == {1, 2}

\* the requests a caller may send to update_task
UpdateRequests ==
    { [name |-> None, priority |-> Some(2)],
      [name |-> None, priority |-> Some(5)],
      [name |-> Some(Str(0, 1, "b", 0)), priority |-> None],
      [name |-> Some(Str(0, 0, "", 0)), priority |-> None] }

\* the status of the stored row of a task
StoredStatus(id) == (CHOOSE r \in db.tasks : r.id = id).status

InitUseCases ==
    /\ db = NoDb
    /\ TaskIdle /\ PolicyIdle /\ ValidateIdle /\ AnalyticsIdle /\ StoreIdle /\ CompletionIdle

\* the call of caller c has returned result r to its handler
Returned(c, op, r) ==
    [db EXCEPT !.calls[c] = NoCall, !.op = op, !.repo = r.repo, !.last = r.result,
               !.response = handler_response(r.result)]

CreateTask ==
    /\ db.requests < MaxRequests
    /\ \E c \in Callers, name \in CreateNames, priority \in CreatePriorities, db_ok \in BOOLEAN :
         /\ db.calls[c].pc = "idle"
         /\ LET r == create_task(db.tasks, name, priority, db_ok) IN
            db' = [Returned(c, "create_task", r) EXCEPT !.tasks = r.table, !.requests = @ + 1]
    /\ UNCHANGED offUseCases

UpdateTaskStatusFind ==
    /\ db.requests < MaxRequests
    /\ \E c \in Callers, id \in RequestIds, status \in TaskStatus, db_ok \in BOOLEAN :
         /\ db.calls[c].pc = "idle"
         /\ LET r == update_task_status_find(db.tasks, id, db_ok) IN
            IF r.table = None
            THEN db' = [Returned(c, "update_task_status", r) EXCEPT !.requests = @ + 1]
            ELSE db' = [db EXCEPT
                          !.calls[c] = [NoCall EXCEPT !.pc = "update_task_status",
                                                      !.status = status, !.task = r.table],
                          !.requests = @ + 1]
    /\ UNCHANGED offUseCases

UpdateTaskStatusUpdate ==
    /\ \E c \in Callers, db_ok \in BOOLEAN :
         /\ db.calls[c].pc = "update_task_status"
         /\ LET t == CHOOSE x \in db.calls[c].task : TRUE
                r == update_task_status_update(db.tasks, t, db.calls[c].status, db_ok)
            IN  db' = [Returned(c, "update_task_status", r) EXCEPT
                         !.tasks = r.table,
                         !.changes = IF r.result[1] = "Ok"
                                     THEN Append(@, [task_id |-> t.id, from |-> t.status,
                                                     to |-> r.result[2].status,
                                                     stored |-> StoredStatus(t.id)])
                                     ELSE @]
    /\ UNCHANGED offUseCases

UpdateTaskFind ==
    /\ db.requests < MaxRequests
    /\ \E c \in Callers, id \in RequestIds, request \in UpdateRequests, db_ok \in BOOLEAN :
         /\ db.calls[c].pc = "idle"
         /\ LET r == update_task_find(db.tasks, id, db_ok) IN
            IF r.table = None
            THEN db' = [Returned(c, "update_task", r) EXCEPT !.requests = @ + 1]
            ELSE db' = [db EXCEPT
                          !.calls[c] = [NoCall EXCEPT !.pc = "update_task",
                                                      !.name = request.name,
                                                      !.priority = request.priority,
                                                      !.task = r.table],
                          !.requests = @ + 1]
    /\ UNCHANGED offUseCases

UpdateTaskUpdate ==
    /\ \E c \in Callers, db_ok \in BOOLEAN :
         /\ db.calls[c].pc = "update_task"
         /\ LET t == CHOOSE x \in db.calls[c].task : TRUE
                r == update_task_update(db.tasks, t, db.calls[c].name, db.calls[c].priority,
                                        db_ok)
            IN  db' = [Returned(c, "update_task", r) EXCEPT !.tasks = r.table]
    /\ UNCHANGED offUseCases

NextUseCases ==
    \/ CreateTask
    \/ UpdateTaskStatusFind
    \/ UpdateTaskStatusUpdate
    \/ UpdateTaskFind
    \/ UpdateTaskUpdate

SpecUseCases == InitUseCases /\ [][NextUseCases]_vars

\* the from_status and to_status of the stored entries of a task, in order
StoredHistory(id) ==
    LET mine == SelectSeq(db.status_history, LAMBDA h : h.task_id = id) IN
    [i \in 1..Len(mine) |-> <<mine[i].from_status, mine[i].to_status>>]

\* the creation of a task followed by its status changes that succeeded
ValidHistory(id) ==
    LET mine == SelectSeq(db.changes, LAMBDA ch : ch.task_id = id) IN
    <<<<None, "Pending">>>> \o [i \in 1..Len(mine) |-> <<Some(mine[i].from), mine[i].to>>]

\* C19: after any sequence of create_task and update_task_status calls, the
\* stored history of every task is one creation entry followed by one entry
\* per successful status change, in order, whose from_status and to_status
\* are the status before and after that change
C19_StoredHistoryIsValid ==
    \A t \in db.tasks : StoredHistory(t.id) = ValidHistory(t.id)

\* the call of caller c that is past its find_by_id
InFlight(c) == db.calls[c]

\* the task that the call of caller c read
TaskRead(c) == CHOOSE x \in db.calls[c].task : TRUE

\* the task that the call of caller c read may move to the status it asks for
PassesValidation(c) ==
    LET t == TaskRead(c)
        target == InFlight(c).status
    IN  /\ is_ok(can_transition(t.status, target, is_high_priority(t), "User"))
        /\ is_ok(transition_to(t, target, 0).result)

\* C21: an update_task_status call is judged against the task it read and
\* nothing else: whenever the status it read passes validation and the
\* database carries out the UPDATE, the call succeeds and its status is the
\* stored one, whatever another call has stored since the read; no conflict
\* is reported
C21_RaceUndetected ==
    [][\A c \in Callers :
          (InFlight(c).pc = "update_task_status" /\ db'.calls[c].pc = "idle"
             /\ db'.last[1] # "RepositoryError")
          => IF PassesValidation(c)
             THEN /\ db'.last[1] = "Ok"
                  /\ \E r \in db'.tasks : r.id = TaskRead(c).id /\ r.status = db'.last[2].status
             ELSE db'.last[1] = "ValidationError" /\ db'.tasks = db.tasks]_vars

\* two calls read the task in InProgress; one completed it, the other then
\* cancelled the completed task, and both succeeded
C21_Witness ==
    \E i, j \in DOMAIN db.changes :
        /\ i < j
        /\ db.changes[i].task_id = db.changes[j].task_id
        /\ db.changes[i].from = "InProgress" /\ db.changes[i].to = "Completed"
        /\ db.changes[j].from = "InProgress" /\ db.changes[j].to = "Cancelled"
        /\ db.changes[j].stored = "Completed"
        /\ ~can_transition_to(db.changes[j].stored, db.changes[j].to)

RECURSIVE SumSeq(_)
SumSeq(numbers) == IF numbers = <<>> THEN 0 ELSE Head(numbers) + SumSeq(Tail(numbers))

\* the numbers of a finite set in ascending order (ORDER BY)
RECURSIVE Ascending(_)
Ascending(S) ==
    IF S = {} THEN <<>>
    ELSE LET least == CHOOSE x \in S : \A y \in S : x <= y IN <<least>> \o Ascending(S \ {least})

\* the ids of the tasks with a row to_status = 'Completed' AND changed_at
\* BETWEEN start_date AND end_date (SELECT DISTINCT task_id)
completed_task_ids(tasks, start_date, end_date) ==
    { id \in DOMAIN tasks :
        \E i \in DOMAIN tasks[id].history :
            /\ tasks[id].history[i].to_status = "Completed"
            /\ tasks[id].history[i].changed_at >= start_date
            /\ tasks[id].history[i].changed_at <= end_date }

\* PostgresStatusHistoryRepository::get_completion_analytics: the analytics
\* of these tasks, those that have none left out; the rows are taken in the
\* order of their ids
repo_get_completion_analytics(tasks, start_date, end_date) ==
    LET ids == SelectSeq(Ascending(completed_task_ids(tasks, start_date, end_date)),
                         LAMBDA id : repo_get_task_analytics(tasks[id].history) # None)
    IN  [k \in 1..Len(ids) |-> CHOOSE a \in repo_get_task_analytics(tasks[ids[k]].history) : TRUE]

\* the rows of tasks JOIN sh_created JOIN sh_completed for priority p, each
\* with its sh_completed.changed_at - sh_created.changed_at
joined_rows(tasks, p) ==
    { <<id, i, j>> \in (DOMAIN tasks) \X (1..MaxLifetime) \X (1..MaxLifetime) :
        /\ tasks[id].priority = Some(p)
        /\ i \in DOMAIN tasks[id].history /\ j \in DOMAIN tasks[id].history
        /\ tasks[id].history[i].from_status = None
        /\ tasks[id].history[j].to_status = "Completed" }

\* PostgresStatusHistoryRepository::get_average_completion_times: per
\* priority the AVG of the seconds, cast to i64, in priority order
get_average_completion_times(tasks) ==
    LET priorities == Ascending({ p \in 1..10 : joined_rows(tasks, p) # {} })
        seconds(p) == [r \in joined_rows(tasks, p) |->
                          tasks[r[1]].history[r[3]].changed_at - tasks[r[1]].history[r[2]].changed_at]
        avg_seconds(p) == i64_div(SumOver(seconds(p), joined_rows(tasks, p)),
                                  Cardinality(joined_rows(tasks, p)))
    IN  [k \in 1..Len(priorities) |-> <<priorities[k], avg_seconds(priorities[k])>>]

\* average_completion_time of get_completion_analytics
average_completion_time(analytics_list) ==
    LET total_completed_tasks == Len(analytics_list)
        total_completion_time ==
            SumSeq([k \in 1..Len(analytics_list) |->
                       DurationOrZero(analytics_list[k].time_to_completion)])
    IN  IF total_completed_tasks > 0
        THEN Some(format_duration(i64_div(total_completion_time, total_completed_tasks)))
        ELSE None

\* TaskUseCases::get_completion_analytics; approval_rate is kept as the
\* pair of the two counts it divides
get_completion_analytics(tasks, start_date, end_date) ==
    LET analytics_list == repo_get_completion_analytics(tasks, start_date, end_date)
        priority_times == get_average_completion_times(tasks)
        total_completed_tasks == Len(analytics_list)
        approved_tasks == Len(SelectSeq(analytics_list, LAMBDA a : a.was_approved))
    IN  UseCaseOk(
          [period_start |-> start_date,
           period_end |-> end_date,
           total_completed_tasks |-> total_completed_tasks,
           average_completion_time |-> average_completion_time(analytics_list),
           completion_times_by_priority |->
               [k \in 1..Len(priority_times) |->
                   [priority |-> priority_times[k][1],
                    average_time |-> format_duration(priority_times[k][2]),
                    task_count |-> Len(SelectSeq(analytics_list, LAMBDA a : TRUE))]],
           approval_rate |-> IF total_completed_tasks > 0
                             THEN <<approved_tasks, total_completed_tasks>>
                             ELSE <<0, 1>>])

\* a row of the history of task id
Entry(id, i, from_status, to_status, changed_at) ==
    StatusHistory_new(Uuid(10 * id + i), id, from_status, to_status, changed_at, "system", None, "User")

\* the histories a task may have: completed, approved after review,
\* cancelled, still in progress, and cancelled with a Completed row after it
Lifetimes(id) ==
    { <<Entry(id, 1, None, "Pending", 0),
        Entry(id, 2, Some("Pending"), "InProgress", 1),
        Entry(id, 3, Some("InProgress"), "Completed", 3)>>,
      <<Entry(id, 1, None, "Pending", 0),
        Entry(id, 2, Some("Pending"), "InProgress", 1),
        Entry(id, 3, Some("InProgress"), "PendingReview", 2),
        Entry(id, 4, Some("PendingReview"), "Completed", 4)>>,
      <<Entry(id, 1, None, "Pending", 0),
        Entry(id, 2, Some("Pending"), "Cancelled", 1)>>,
      <<Entry(id, 1, None, "Pending", 0),
        Entry(id, 2, Some("Pending"), "InProgress", 1)>>,
      <<Entry(id, 1, None, "Pending", 0),
        Entry(id, 2, Some("Pending"), "Cancelled", 1),
        Entry(id, 3, Some("Cancelled"), "Completed", 2)>> }

\* the priorities of the tasks
PopulationPriorities == { None, Some(1), Some(2) }

\* the periods asked for: start_date and end_date
Periods == { <<0, 4>>, <<0, 3>> }

InitCompletion ==
    /\ pop = NoPopulation
    /\ TaskIdle /\ PolicyIdle /\ ValidateIdle /\ AnalyticsIdle /\ StoreIdle /\ UseCasesIdle

\* the tables hold one more task with its history, and
\* get_completion_analytics is called
GetCompletionAnalytics ==
    /\ Len(pop.tasks) < MaxPopulation
    /\ \E priority \in PopulationPriorities, entries \in Lifetimes(Len(pop.tasks) + 1),
          period \in Periods :
         LET tasks == Append(pop.tasks, [priority |-> priority, history |-> entries]) IN
         pop' = [tasks |-> tasks, fn |-> "get_completion_analytics",
                 result |-> get_completion_analytics(tasks, period[1], period[2])]
    /\ UNCHANGED offCompletion

NextCompletion == GetCompletionAnalytics

SpecCompletion == InitCompletion /\ [][NextCompletion]_vars

\* the tasks completed in the period that the last call asked for
CompletedInPeriod ==
    { id \in DOMAIN pop.tasks :
        /\ from_history(pop.tasks[id].history) # None
        /\ \E i \in DOMAIN pop.tasks[id].history :
             /\ pop.tasks[id].history[i].to_status = "Completed"
             /\ pop.tasks[id].history[i].changed_at >= pop.result[2].period_start
             /\ pop.tasks[id].history[i].changed_at <= pop.result[2].period_end }

\* the time_to_completion of task id
TimeToCompletion(id) == (CHOOSE a \in from_history(pop.tasks[id].history) : TRUE).time_to_completion

\* C23: average_completion_time is the sum of the time_to_completion values
\* that are present divided by the number of tasks that have one, and it is
\* absent when the period has no completed task
C23_AverageCompletionTime ==
    pop.fn = "get_completion_analytics" =>
        LET timed == { id \in CompletedInPeriod : TimeToCompletion(id) # None }
            total == SumOver([id \in DOMAIN pop.tasks |-> DurationOrZero(TimeToCompletion(id))],
                             timed)
        IN  /\ CompletedInPeriod = {} => pop.result[2].average_completion_time = None
            /\ timed # {} =>
                 pop.result[2].average_completion_time =
                     Some(format_duration(i64_div(total, Cardinality(timed))))

\* C24: the task_count of every per-priority row is the number of completed
\* tasks of that priority
C24_TaskCountPerPriority ==
    pop.fn = "get_completion_analytics" =>
        \A k \in DOMAIN pop.result[2].completion_times_by_priority :
            LET row == pop.result[2].completion_times_by_priority[k] IN
            row.task_count =
                Cardinality({ id \in CompletedInPeriod :
                                pop.tasks[id].priority = Some(row.priority) })

(***************************************************************************)
(* The policy against the aggregate, and the dispatch of transition_to     *)
(***************************************************************************)
\* the task is in InProgress without a high priority and the target is
\* PendingReview: the case transition_to rejects although the policy allows it
ReviewOfOrdinaryTask(self, target) ==
    target = "PendingReview" /\ self.status = "InProgress" /\ ~is_high_priority(self)

\* C25 as stated: every status get_valid_transitions returns for the task's
\* status, its is_high_priority flag and a role is one transition_to
\* succeeds with, leaving the task in that status
C25_ValidTransitionsSucceed ==
    \A role \in UserRole :
       LET list == get_valid_transitions(task.status, is_high_priority(task), role) IN
       \A k \in DOMAIN list :
          LET r == transition_to(task, list[k], now) IN
          is_ok(r.result) /\ r.self.status = list[k]

\* C25 amended: every status get_valid_transitions returns is one
\* transition_to succeeds with, leaving the task in that status, except
\* PendingReview for a task in InProgress that is not high-priority, which
\* transition_to rejects, leaving the task as it was
C25_ValidTransitionsSucceedButReview ==
    \A role \in UserRole :
       LET list == get_valid_transitions(task.status, is_high_priority(task), role) IN
       \A k \in DOMAIN list :
          LET r == transition_to(task, list[k], now) IN
          IF ReviewOfOrdinaryTask(task, list[k])
          THEN is_err(r.result) /\ r.self = task
          ELSE is_ok(r.result) /\ r.self.status = list[k]

\* transition_to has just moved the task to a status that
\* get_valid_transitions offered a User for the task as it was
C25_Witness ==
    /\ last.op = "transition_to" /\ is_ok(last.result)
    /\ \E k \in DOMAIN get_valid_transitions(last.before.status, is_high_priority(last.before), "User") :
          get_valid_transitions(last.before.status, is_high_priority(last.before), "User")[k] = last.target
    /\ last.target = "PendingReview"
    /\ task.status = "PendingReview"

\* transition_to(Completed) is called on a high-priority task in InProgress:
\* the case complete() redirects to PendingReview
RedirectedToReview(self, target) ==
    target = "Completed" /\ self.status = "InProgress" /\ is_high_priority(self)

\* C26 as stated: whenever transition_to(target) returns Ok, the status
\* afterwards is target
C26_OkMeansTarget ==
    (last.op = "transition_to" /\ is_ok(last.result)) => task.status = last.target

\* C26 amended: whenever transition_to(target) returns Ok, the status
\* afterwards is target, except that transition_to(Completed) on a
\* high-priority task in InProgress returns Ok and leaves it in PendingReview
C26_OkMeansTargetOrReview ==
    (last.op = "transition_to" /\ is_ok(last.result)) =>
        task.status = IF RedirectedToReview(last.before, last.target)
                      THEN "PendingReview"
                      ELSE last.target

\* transition_to(Completed) returned Ok on a high-priority task in InProgress
C26_Witness ==
    /\ last.op = "transition_to" /\ is_ok(last.result)
    /\ RedirectedToReview(last.before, last.target)
    /\ task.status = "PendingReview"

\* C28 as stated: cancel and transition_to(Cancelled) both succeed or both
\* fail in every state of the task, so neither cancels a Cancelled task again
C28_CancelAgrees ==
    /\ is_ok(cancel(task, now).result) <=> is_ok(transition_to(task, "Cancelled", now).result)
    /\ task.status = "Cancelled" => is_err(cancel(task, now).result)

\* C28 amended: cancel and transition_to(Cancelled) both succeed or both fail
\* in every state of the task but Cancelled; on a task that is already
\* Cancelled transition_to(Cancelled) fails, while cancel succeeds and leaves
\* it Cancelled
C28_CancelAgreesUnlessCancelled ==
    IF task.status = "Cancelled"
    THEN /\ is_err(transition_to(task, "Cancelled", now).result)
         /\ is_ok(cancel(task, now).result)
         /\ cancel(task, now).self.status = "Cancelled"
    ELSE is_ok(cancel(task, now).result) <=> is_ok(transition_to(task, "Cancelled", now).result)

\* cancel has succeeded on a task that was already Cancelled
C28_Witness ==
    /\ last.op = "cancel" /\ is_ok(last.result)
    /\ last.before.status = "Cancelled"
    /\ task.status = "Cancelled"

\* C29: a task that was high-priority when it entered InProgress is never
\* Completed without having been in PendingReview, whatever start_progress,
\* complete, approve_completion, cancel, transition_to and update_priority
\* calls are made
C29_PriorityCannotBypassReview ==
    (task.status = "Completed" /\ path.high_on_start = Some(TRUE)) => path.reviewed

(***************************************************************************)
(* update_task against update_task_status, and the role of                 *)
(* update_task_status                                                      *)
(***************************************************************************)
\* the status column of every stored task is as it was
StatusesKept ==
    \A r \in db.tasks : \E r2 \in db'.tasks : r2.id = r.id /\ r2.status = r.status

\* C27: update_task never changes the stored status of a task, also when
\* an update_task_status call on the same task runs between its read and its
\* write: the status that update_task_status wrote stays
C27_UpdateTaskKeepsStatus ==
    [][\A c \in Callers :
          (InFlight(c).pc = "update_task" /\ db'.calls[c].pc = "idle") => StatusesKept]_vars

\* C30 as stated: a task whose stored status is PendingReview never becomes
\* Completed through update_task_status: the request for Completed is
\* rejected with a ValidationError, and the only change of the stored status
\* is to Cancelled
C30_StoredReviewOnlyCancelled ==
    [][\A c \in Callers :
          (/\ InFlight(c).pc = "update_task_status" /\ db'.calls[c].pc = "idle"
           /\ StoredStatus(TaskRead(c).id) = "PendingReview")
          => /\ InFlight(c).status = "Completed" => db'.last[1] = "ValidationError"
             /\ \E r \in db'.tasks :
                   r.id = TaskRead(c).id /\ r.status \in {"PendingReview", "Cancelled"}]_vars

\* C30 amended: a task that update_task_status has read in PendingReview
\* never becomes Completed through that call: the request for Completed is
\* rejected with a ValidationError, and the only change the call makes to the
\* stored status is to Cancelled
C30_ReadReviewOnlyCancelled ==
    [][\A c \in Callers :
          (/\ InFlight(c).pc = "update_task_status" /\ db'.calls[c].pc = "idle"
           /\ TaskRead(c).status = "PendingReview")
          => /\ InFlight(c).status = "Completed" => db'.last[1] = "ValidationError"
             /\ \/ db'.tasks = db.tasks
                \/ /\ InFlight(c).status = "Cancelled"
                   /\ \E r \in db'.tasks : r.id = TaskRead(c).id /\ r.status = "Cancelled"]_vars

\* update_task_status has moved a task that it read in PendingReview, and
\* that was stored as such, to Cancelled
C30_Witness ==
    \E i \in DOMAIN db.changes :
       /\ db.changes[i].from = "PendingReview" /\ db.changes[i].stored = "PendingReview"
       /\ db.changes[i].to = "Cancelled"

(***************************************************************************)
(* The rules of can_transition, their reasons, and requires_comment        *)
(***************************************************************************)
\* the two combinations the rules of can_transition reject
ReviewRule(from, to, high_priority) == from = "InProgress" /\ to = "Completed" /\ high_priority

ApprovalRule(from, to, user_role) ==
    from = "PendingReview" /\ to = "Completed" /\ ~can_approve(user_role)

\* C31: can_transition returns Ok for every combination that the base
\* relation permits and that is neither (InProgress, Completed,
\* high-priority) nor (PendingReview, Completed, role that cannot approve)
C31_OtherCombinationsSucceed ==
    (/\ q.fn = "can_transition"
     /\ can_transition_to(q.from, q.to)
     /\ ~ReviewRule(q.from, q.to, q.high_priority)
     /\ ~ApprovalRule(q.from, q.to, q.role))
    => q.result = Ok

\* can_transition has accepted InProgress -> Completed for a User and a task
\* that is not high-priority
C31_Witness ==
    /\ q.fn = "can_transition" /\ q.from = "InProgress" /\ q.to = "Completed"
    /\ ~q.high_priority /\ q.role = "User"
    /\ q.result = Ok

\* C35: the reason of a rejection is that of the first failing rule: the
\* invalid-transition reason whenever the base relation forbids the pair,
\* whatever the flag and the role; the must-go-through-review reason exactly
\* for (InProgress, Completed, high-priority); the only-managers reason
\* exactly for (PendingReview, Completed, role that cannot approve)
C35_ReasonOfFirstFailingRule ==
    q.fn = "can_transition" =>
        /\ ~can_transition_to(q.from, q.to) =>
              q.result = Err2("Invalid transition from {:?} to {:?}", q.from, q.to)
        /\ q.result = Err("High-priority tasks must go through review before completion")
              <=> ReviewRule(q.from, q.to, q.high_priority)
        /\ q.result = Err("Only managers can approve task completion")
              <=> ApprovalRule(q.from, q.to, q.role)

\* can_transition has rejected Completed -> Completed for a high-priority
\* task and a User with the invalid-transition reason
C35_Witness ==
    /\ q.fn = "can_transition" /\ q.from = "Completed" /\ q.to = "Completed"
    /\ q.high_priority /\ q.role = "User"
    /\ q.result = Err2("Invalid transition from {:?} to {:?}", "Completed", "Completed")

\* C39: requires_comment is true exactly for (PendingReview, Completed) and
\* for every pair whose target is Cancelled, pairs the relation forbids
\* included; can_transition accepts the pairs it names without a comment
\* being given, so it does not depend on requires_comment
C39_RequiresComment ==
    /\ q.fn = "requires_comment" =>
          (q.value <=> ((q.from = "PendingReview" /\ q.to = "Completed") \/ q.to = "Cancelled"))
    /\ q.fn = "can_transition" =>
          (is_ok(q.result) <=>
              /\ can_transition_to(q.from, q.to)
              /\ ~ReviewRule(q.from, q.to, q.high_priority)
              /\ ~ApprovalRule(q.from, q.to, q.role))

\* requires_comment has answered true for Completed -> Cancelled, a pair the
\* relation forbids
C39_Witness ==
    /\ q.fn = "requires_comment" /\ q.from = "Completed" /\ q.to = "Cancelled"
    /\ ~can_transition_to(q.from, q.to)
    /\ q.value

(***************************************************************************)
(* approval_time, completed_at, the end of the walk, and the history of a  *)
(* task just created                                                       *)
(***************************************************************************)
\* the entries before the one that ends the walk that put the task in
\* PendingReview
ReviewEntries(entries) ==
    { i \in 1..(WalkEnd(entries) - 1) : entries[i].to_status = "PendingReview" }

\* C32: approval_time is present only when was_approved is true, and it is
\* then the changed_at of the approving PendingReview -> Completed entry
\* minus the changed_at of the entry that put the task in PendingReview (the
\* last one, should the history hold several)
C32_ApprovalTime ==
    \A a \in an.analytics :
        a.approval_time # None =>
              /\ a.was_approved
              /\ ReviewEntries(history) # {}
              /\ LET review == CHOOSE i \in ReviewEntries(history) :
                                  \A j \in ReviewEntries(history) : j <= i
                 IN  a.approval_time =
                        Some(history[WalkEnd(history)].changed_at - history[review].changed_at)

\* the history [create@0, ->InProgress@1, ->PendingReview@2, ->Completed@4]
\* has approval_time 2
C32_Witness ==
    /\ Shows(<<"InProgress", "PendingReview", "Completed">>)
    /\ history[1].changed_at = 0 /\ history[2].changed_at = 1
    /\ history[3].changed_at = 2 /\ history[4].changed_at = 4
    /\ \E a \in an.analytics : a.was_approved /\ a.approval_time = Some(2)

\* the entries that go to Completed or Cancelled
TerminalEntries(entries) ==
    { i \in DOMAIN entries : entries[i].to_status \in {"Completed", "Cancelled"} }

\* C33: completed_at is the changed_at of the first entry that goes to
\* Completed or Cancelled and is absent when there is none; when that first
\* entry goes to Cancelled, time_to_completion is absent and was_approved is
\* false
C33_CompletedAt ==
    \A a \in an.analytics :
        IF TerminalEntries(history) = {}
        THEN a.completed_at = None
        ELSE LET first == CHOOSE i \in TerminalEntries(history) :
                              \A j \in TerminalEntries(history) : i <= j
             IN  /\ a.completed_at = Some(history[first].changed_at)
                 /\ history[first].to_status = "Cancelled" =>
                       a.time_to_completion = None /\ ~a.was_approved

\* the history [create, ->InProgress, ->Cancelled@T2] has completed_at T2
C33_Witness ==
    /\ Shows(<<"InProgress", "Cancelled">>)
    /\ history[3].changed_at = 2
    /\ \E a \in an.analytics :
          a.completed_at = Some(2) /\ a.time_to_completion = None /\ ~a.was_approved

\* the five fields that the walk computes
WalkFields(a) ==
    <<a.total_time_in_progress, a.time_to_completion, a.was_approved, a.approval_time,
      a.completed_at>>

\* C34: the walk stops at the first entry that goes to Completed or
\* Cancelled: the history gives the same total_time_in_progress,
\* time_to_completion, was_approved, approval_time and completed_at as the
\* history cut after that entry
C34_WalkStopsAtTerminal ==
    \A a \in an.analytics :
        \E b \in from_history(SubSeq(history, 1, WalkEnd(history))) :
            WalkFields(a) = WalkFields(b)

\* a history that goes on, with work and a completion, after a cancellation
C34_Witness ==
    /\ Shows(<<"Cancelled", "InProgress", "Completed">>)
    /\ history[4].changed_at > history[3].changed_at
    /\ \E a \in an.analytics :
          a.time_to_completion = None /\ a.total_time_in_progress = None
             /\ a.completed_at = Some(history[2].changed_at)

\* C38: the history of the creation entry only gives analytics with
\* number_of_transitions 1, no total_time_in_progress, time_to_completion,
\* approval_time or completed_at, and was_approved false
C38_CreationOnly ==
    (Len(history) = 1 /\ is_initial_creation(history[1])) =>
        /\ an.analytics # None
        /\ \A a \in an.analytics :
              /\ a.number_of_transitions = 1
              /\ a.total_time_in_progress = None
              /\ a.time_to_completion = None
              /\ a.approval_time = None
              /\ a.completed_at = None
              /\ ~a.was_approved

\* from_history has been given the creation entry of a task created at time 1
C38_Witness ==
    /\ an.fn = "creation" /\ Len(history) = 1
    /\ \E a \in an.analytics : a.created_at = 1 /\ a.number_of_transitions = 1

(***************************************************************************)
(* What the updates leave alone, approve_completion, and the length of a   *)
(* lifecycle                                                               *)
(***************************************************************************)
\* C36: update_name and update_priority leave the status, the id and
\* created_at of the task as they were, whether they return Ok or Err and
\* whatever the status
C36_UpdatesKeepStatus ==
    last.op \in {"update_name", "update_priority"} =>
        /\ task.status = last.before.status
        /\ task.id = last.before.id
        /\ task.created_at = last.before.created_at

\* update_priority has changed the priority of a task in InProgress after
\* the clock moved on
C36_Witness ==
    /\ last.op = "update_priority" /\ is_ok(last.result)
    /\ last.before.status = "InProgress" /\ task.status = "InProgress"
    /\ task.priority # last.before.priority
    /\ task.updated_at > task.created_at

\* C37: approve_completion returns Ok exactly when the status is
\* PendingReview and then leaves it Completed; from every other status it
\* returns an error and leaves the status as it was
C37_ApproveOnlyFromReview ==
    last.op = "approve_completion" =>
        IF last.before.status = "PendingReview"
        THEN is_ok(last.result) /\ task.status = "Completed"
        ELSE is_err(last.result) /\ task.status = last.before.status

\* approve_completion has completed a task that was in PendingReview
C37_Witness ==
    /\ last.op = "approve_completion" /\ is_ok(last.result)
    /\ last.before.status = "PendingReview" /\ task.status = "Completed"

\* C40: the status of a task changes at most three times, and from every
\* status that is not Completed or Cancelled a call leads to one of the two
C40_LifecycleIsFinite ==
    /\ path.changes <= 3
    /\ task.status \notin {"Completed", "Cancelled"} =>
          /\ is_ok(cancel(task, now).result)
          /\ cancel(task, now).self.status = "Cancelled"

\* a task has gone from Pending through InProgress and PendingReview to
\* Completed
C40_Witness ==
    /\ path.changes = 3 /\ path.reviewed
    /\ task.status = "Completed"

====
